---- MODULE Spec2Model ----
(***************************************************************************)
(* bufconn.Conn (src/Conn.go): a net.Conn wrapped by two goroutines, the   *)
(* byte reader and the scheduler, fed by application goroutines that queue *)
(* operations, replace the message handler and stop the connection.        *)
(*                                                                         *)
(* Every access to memory shared between goroutines (isStopped,            *)
(* msgHandler, the three channels) is a step of its own, so the unsynchro- *)
(* nised reads and writes of isStopped and msgHandler interleave in every  *)
(* order the goroutines can produce.                                       *)
(***************************************************************************)
EXTENDS Integers, Sequences, FiniteSets, TLC

\* Bounds of the model.
MaxBytes == 3        \* bytes the peer sends in one behaviour
MaxOps == 2          \* QueueOperation calls made while the scheduler runs
MaxLateOps == 1      \* further QueueOperation calls once the scheduler has exited
NumApps == 1         \* application goroutines
ReadChanCap == 1     \* capacity of readChan (100 in NewConn), scaled down
OpChanCap == 2       \* capacity of opChan (10 in NewConn), scaled down

\* Program constants.
StopChanCap == 10    \* capacity of stopChan
Delim == 59          \* the delimiter handed to NewConn: ';'
Letter == 112        \* a byte that is not the delimiter: 'p'

Byte == {Delim, Letter}
Apps == 1..NumApps

VARIABLES
    closed,      \* number of netconn.Close() calls made by the scheduler
    out,         \* the writes made on netconn, one element per Write call
    readBuf,     \* Conn.readBuf
    readChan,    \* Conn.readChan
    opChan,      \* Conn.opChan: records [id, name]
    msgHandler,  \* Conn.msgHandler: the name of the registered handler
    isStopped,   \* Conn.isStopped
    stopChan,    \* Conn.stopChan: the number of signals buffered
    rpc,         \* position of the reader goroutine
    minibuf,     \* the reader's minibuf[0]
    spc,         \* position of the scheduler goroutine
    running,     \* the callback invocations now executing
    app,         \* the application goroutines: [pc, op]
    \* history
    sent,        \* every byte netconn.Read has returned, in order
    consumed,    \* every byte Read/ReadMsg have handed to a callback, in order,
                 \* with the delimiter that ended each message
    ret,         \* what the running callback's last Session Handle call returned
    nHandled,    \* handler invocations started
    opsStarted,  \* ids of the operations started, in order
    opsDone,     \* ids of the operations that have returned
    chanReg,     \* per byte of readChan: msgHandler when the reader queued it
    opBefore,    \* per operation id: the ids whose QueueOperation had returned
                 \* when its own QueueOperation was called
    opReturned,  \* ids whose QueueOperation call has returned
    replaced,    \* SetMessageHandler has been called with a handler of the caller's
    stopAgain    \* a Stop call begun after another had returned has returned

vars == <<closed, out, readBuf, readChan, opChan, msgHandler,
          isStopped, stopChan, rpc, minibuf, spc, running, app, sent, consumed,
          ret, nHandled, opsStarted, opsDone, chanReg, opBefore, opReturned,
          replaced, stopAgain>>

netVars == <<closed, out, sent>>
connVars == <<readBuf, readChan, opChan, msgHandler, isStopped, stopChan, chanReg>>
readerVars == <<rpc, minibuf>>
histVars == <<consumed, ret, nHandled, opsStarted, opsDone, opBefore, opReturned,
              replaced, stopAgain>>

----------------------------------------------------------------------------
\* Callbacks: straight-line programs of Session Handle calls.

ReadMsgCall(t) == [f |-> "ReadMsg", n |-> 0, t |-> t, bs |-> <<>>]
ReadCall(n, t) == [f |-> "Read", n |-> n, t |-> t, bs |-> <<>>]
WriteCall(bs) == [f |-> "Write", n |-> 0, t |-> 0, bs |-> bs]
WriteMsgCall(msg) == [f |-> "WriteMsg", n |-> 0, t |-> 0, bs |-> msg]

HandlerNames == {"default", "take"}
HandlerArgs == {"nil", "take"}
OpNames == {"ping", "wait"}

\* The handler installed for a nil argument reads one message with no timeout.
OrDefault(f) == IF f = "nil" THEN "default" ELSE f

HandlerProg(h) ==
    IF h = "default" THEN <<ReadMsgCall(0)>>
    ELSE <<ReadCall(2, 1)>>

\* Operations that send one message and read nothing.
SendNames == {"empty", "long"}

OpProg(o) ==
    IF o = "ping" THEN <<WriteMsgCall(<<Letter>>), ReadMsgCall(1)>>
    ELSE IF o = "empty" THEN <<WriteMsgCall(<<>>)>>
    ELSE IF o = "long" THEN <<WriteMsgCall(<<Letter, Letter>>)>>
    ELSE <<WriteCall(<<Letter>>), ReadCall(1, 0)>>

Prog(r) == IF r.kind = "handler" THEN HandlerProg(r.name) ELSE OpProg(r.name)
Returning(r) == r.ip > Len(Prog(r))
Instr(r) == Prog(r)[r.ip]

NoOp == [id |-> 0, name |-> "none"]
NoRet == [f |-> "none", err |-> FALSE, val |-> <<>>, pre |-> <<>>]

----------------------------------------------------------------------------
Init ==
    /\ closed = 0 /\ out = <<>>
    /\ readBuf = <<>> /\ readChan = <<>> /\ opChan = <<>>
    /\ msgHandler = OrDefault("nil")
    /\ isStopped = FALSE /\ stopChan = 0
    /\ rpc = "check" /\ minibuf = 0
    /\ spc = "top" /\ running = {}
    /\ app = [g \in Apps |-> [pc |-> "idle", op |-> NoOp]]
    /\ sent = <<>> /\ consumed = <<>> /\ ret = NoRet
    /\ nHandled = 0 /\ opsStarted = <<>> /\ opsDone = {} /\ chanReg = <<>>
    /\ opBefore = <<>> /\ opReturned = {} /\ replaced = FALSE
    /\ stopAgain = FALSE

----------------------------------------------------------------------------
\* The reader goroutine (NewConn).

\* if conn.isStopped { return }
ReaderCheck ==
    /\ rpc = "check"
    /\ rpc' = IF isStopped THEN "done" ELSE "read"
    /\ UNCHANGED <<netVars, connVars, minibuf, spc, running, app, histVars>>

\* conn.netconn.Read(minibuf) returns the next byte b the peer has written
ReaderRead(b) ==
    /\ rpc = "read" /\ closed = 0 /\ Len(sent) < MaxBytes
    /\ minibuf' = b /\ sent' = Append(sent, b)
    /\ rpc' = "send"
    /\ UNCHANGED <<closed, out>>
    /\ UNCHANGED <<connVars, spc, running, app, histVars>>

\* conn.netconn.Read(minibuf) fails: the peer has closed or the connection
\* broke, or the scheduler has closed it here. conn.Stop() follows.
ReaderReadErr ==
    /\ rpc = "read"
    /\ rpc' = "stop_check"
    /\ UNCHANGED <<netVars, connVars, minibuf, spc, running, app, histVars>>

\* conn.readChan <- minibuf[0]
ReaderSend ==
    /\ rpc = "send" /\ Len(readChan) < ReadChanCap
    /\ readChan' = Append(readChan, minibuf)
    /\ chanReg' = Append(chanReg, msgHandler)
    /\ rpc' = "check"
    /\ UNCHANGED <<netVars, readBuf, opChan, msgHandler, isStopped, stopChan>>
    /\ UNCHANGED <<minibuf, spc, running, app, histVars>>

\* Mutation: Stop without its test of isStopped.
StopGuardOff == FALSE

\* Conn.Stop: the test of if c.isStopped { return }
StopGuard == isStopped

\* A Stop call has run to its end: it has put its signal in stopChan, where
\* it still is unless the scheduler has taken it and closed the connection.
StopHasReturned == stopChan + closed > 0

stopHist == <<consumed, ret, nHandled, opsStarted, opsDone, opBefore, opReturned,
              replaced>>

\* Conn.Stop, reached from the reader: if c.isStopped { return }
ReaderStopCheck ==
    /\ rpc = "stop_check"
    /\ rpc' = IF StopGuard THEN "done" ELSE "stop_set"
    /\ stopAgain' = (stopAgain \/ (StopGuard /\ StopHasReturned))
    /\ UNCHANGED <<netVars, connVars, minibuf, spc, running, app, stopHist>>

\* c.isStopped = true
ReaderStopSet ==
    /\ rpc = "stop_set"
    /\ isStopped' = TRUE
    /\ rpc' = "stop_send"
    /\ UNCHANGED <<netVars, readBuf, readChan, opChan, msgHandler, stopChan, chanReg>>
    /\ UNCHANGED <<minibuf, spc, running, app, histVars>>

\* c.stopChan <- true, then the goroutine returns
ReaderStopSend ==
    /\ rpc = "stop_send" /\ stopChan < StopChanCap
    /\ stopChan' = stopChan + 1
    /\ rpc' = "done"
    /\ UNCHANGED <<netVars, readBuf, readChan, opChan, msgHandler, isStopped, chanReg>>
    /\ UNCHANGED <<minibuf, spc, running, app, histVars>>

----------------------------------------------------------------------------
\* The scheduler goroutine (NewConn).

\* Mutations: the callback started in a goroutine of its own; the loop left
\* after a callback; the handler given to NewConn captured for good; the
\* newest operation taken from opChan.
AfterInvokeAsync == "top"
AfterReturnExit == "done"
HandlerAtConstruction == "default"
NextOpNewest(ch) == ch[Len(ch)]

\* Mutation: the loop going on after conn.netconn.Close().
AfterCloseLoop == "top"

\* Mutation: the scheduler back in its select while the callback runs.
AfterInvokeDetached == "select"

\* The scheduler calls the callback and waits for it to return; when it has
\* returned the loop goes round again.
AfterInvoke == "run"
AfterReturn == "top"

\* conn.netconn.Close() is followed by return: the goroutine is over.
AfterClose == "done"

\* The handler the scheduler calls for a delimiter.
HandlerToCall == msgHandler

\* The operation a receive on opChan yields, and what stays queued.
NextOp(ch) == Head(ch)
RestOps(ch) == Tail(ch)

Invoke(kind, name, id, buf) ==
    /\ running' = running \cup
          {[inv |-> nHandled + Len(opsStarted) + 1, kind |-> kind, name |-> name,
            id |-> id, ip |-> 1, ph |-> "top", buf0 |-> buf]}
    /\ IF kind = "handler"
       THEN nHandled' = nHandled + 1 /\ UNCHANGED opsStarted
       ELSE opsStarted' = Append(opsStarted, id) /\ UNCHANGED nHandled
    /\ spc' = AfterInvoke

\* if len(conn.stopChan) > 0 { <-conn.stopChan; conn.netconn.Close(); return }
SchedTop ==
    /\ spc = "top"
    /\ IF stopChan > 0
       THEN stopChan' = stopChan - 1 /\ closed' = closed + 1 /\ spc' = AfterClose
       ELSE spc' = "select" /\ UNCHANGED <<stopChan, closed>>
    /\ UNCHANGED <<out, sent>>
    /\ UNCHANGED <<readBuf, readChan, opChan, msgHandler, isStopped, chanReg>>
    /\ UNCHANGED <<readerVars, running, app, histVars>>

\* Mutation: the handler called before the delimiter is in the buffer.
ReceivedLate(buf, b) == IF b = Delim THEN buf ELSE Append(buf, b)

\* conn.readBuf = append(conn.readBuf, b), before the handler is called
Received(buf, b) == Append(buf, b)

\* case b := <-conn.readChan
SchedByte ==
    /\ spc = "select" /\ readChan # <<>>
    /\ LET b == Head(readChan) IN
       /\ readChan' = Tail(readChan) /\ chanReg' = Tail(chanReg)
       /\ readBuf' = Received(readBuf, b)
       /\ IF b = Delim
          THEN Invoke("handler", HandlerToCall, 0, readBuf')
          ELSE spc' = "top" /\ UNCHANGED <<running, nHandled, opsStarted>>
    /\ UNCHANGED <<netVars, opChan, msgHandler, isStopped, stopChan>>
    /\ UNCHANGED <<readerVars, app, consumed, ret, opsDone, opBefore, opReturned, replaced, stopAgain>>

\* case o := <-conn.opChan
SchedOp ==
    /\ spc = "select" /\ opChan # <<>>
    /\ LET o == NextOp(opChan) IN
       /\ opChan' = RestOps(opChan)
       /\ Invoke("op", o.name, o.id, readBuf)
    /\ UNCHANGED <<netVars, readBuf, readChan, msgHandler, isStopped, stopChan, chanReg>>
    /\ UNCHANGED <<readerVars, app, consumed, ret, opsDone, opBefore, opReturned, replaced, stopAgain>>

\* case <-conn.stopChan
SchedStop ==
    /\ spc = "select" /\ stopChan > 0
    /\ stopChan' = stopChan - 1 /\ closed' = closed + 1 /\ spc' = AfterClose
    /\ UNCHANGED <<out, sent>>
    /\ UNCHANGED <<readBuf, readChan, opChan, msgHandler, isStopped, chanReg>>
    /\ UNCHANGED <<readerVars, running, app, histVars>>

----------------------------------------------------------------------------
\* Session Handle calls made by a running callback r.

FirstDelim(buf) ==
    IF \E i \in 1..Len(buf) : buf[i] = Delim
    THEN CHOOSE i \in 1..Len(buf) :
            buf[i] = Delim /\ \A j \in 1..(i - 1) : buf[j] # Delim
    ELSE 0

\* Mutations: the delimiter returned with the message; one byte too many cut
\* off by Read; the drained byte put in front of the buffer, or in its place.
MsgOutWithDelim(buf, k) == SubSeq(buf, 1, k)
ReadRestOffByOne(buf, n) == SubSeq(buf, n + 2, Len(buf))
DrainedInFront(buf, b) == <<b>> \o buf
DrainedAlone(buf, b) == <<b>>

\* Mutation: the delimiter of the message returned left in the buffer.
MsgRestKeepDelim(buf, k) == SubSeq(buf, k, Len(buf))

\* ReadMsg, with the delimiter at position k: out[:len(out)-1] and readBuf[i+1:]
MsgOut(buf, k) == SubSeq(buf, 1, k - 1)
MsgRest(buf, k) == SubSeq(buf, k + 1, Len(buf))

\* Read: out (n bytes copied from readBuf) and readBuf[n:]
ReadOut(buf, n) == SubSeq(buf, 1, n)
ReadRest(buf, n) == SubSeq(buf, n + 1, Len(buf))

\* updateWholeBuffer: c.readBuf = append(c.readBuf, <-c.readChan)
Drained(buf, b) == Append(buf, b)

\* Mutation: WriteMsg writing the message without the delimiter.
WriteDataBare(i) == i.bs

\* The bytes a call hands to netconn.Write.
WriteData(i) == IF i.f = "WriteMsg" THEN Append(i.bs, Delim) ELSE i.bs

IsRead(r) == ~Returning(r) /\ Instr(r).f \in {"ReadMsg", "Read"}
IsWrite(r) == ~Returning(r) /\ Instr(r).f \in {"Write", "WriteMsg"}

\* r after its current call has returned, the buffer being buf.
Advance(r, buf) == [r EXCEPT !.ip = @ + 1, !.ph = "top", !.buf0 = buf]
Phase(r, ph) == [r EXCEPT !.ph = ph]
Replace(r, r2) == running' = (running \ {r}) \cup {r2}

cbHist == <<nHandled, opsStarted, opsDone, opBefore, opReturned, replaced, stopAgain>>

\* Mutation: a timeout of zero treated as any other.
CanTimeOutAlways(t) == TRUE

\* ... && timeout != 0
CanTimeOut(t) == t # 0

\* if time.Since(now) > timeout && timeout != 0 { return ..., errors.New(...) }
CbTimedOut ==
    \E r \in running :
    /\ IsRead(r) /\ r.ph = "top" /\ CanTimeOut(Instr(r).t)
    /\ ret' = [f |-> Instr(r).f, err |-> TRUE, val |-> <<>>, pre |-> r.buf0]
    /\ Replace(r, Advance(r, readBuf))
    /\ UNCHANGED <<netVars, connVars, readerVars, spc, app, consumed, cbHist>>

\* the timeout has not elapsed, or there is none: c.Conn.updateWholeBuffer()
CbNotTimedOut ==
    \E r \in running :
    /\ IsRead(r) /\ r.ph = "top"
    /\ Replace(r, Phase(r, "drain"))
    /\ UNCHANGED <<netVars, connVars, readerVars, spc, app, histVars>>

\* updateWholeBuffer: one turn of the loop with len(c.readChan) > 0
CbDrainByte ==
    \E r \in running :
    /\ IsRead(r) /\ r.ph = "drain" /\ readChan # <<>>
    /\ readBuf' = Drained(readBuf, Head(readChan))
    /\ readChan' = Tail(readChan) /\ chanReg' = Tail(chanReg)
    /\ UNCHANGED <<netVars, opChan, msgHandler, isStopped, stopChan>>
    /\ UNCHANGED <<readerVars, spc, running, app, histVars>>

\* ReadMsg, once updateWholeBuffer has found len(c.readChan) = 0:
\* for i, b := range c.Conn.readBuf { if b == c.Conn.msgDelim {...} }
CbScanMsg ==
    \E r \in running :
    /\ IsRead(r) /\ r.ph = "drain" /\ readChan = <<>> /\ Instr(r).f = "ReadMsg"
    /\ LET k == FirstDelim(readBuf) IN
       IF k > 0
       THEN /\ readBuf' = MsgRest(readBuf, k)
            /\ consumed' = consumed \o Append(MsgOut(readBuf, k), Delim)
            /\ ret' = [f |-> "ReadMsg", err |-> FALSE, val |-> MsgOut(readBuf, k),
                       pre |-> r.buf0]
            /\ Replace(r, Advance(r, readBuf'))
       ELSE /\ Replace(r, Phase(r, "top"))
            /\ UNCHANGED <<readBuf, consumed, ret>>
    /\ UNCHANGED <<netVars, readChan, opChan, msgHandler, isStopped, stopChan, chanReg>>
    /\ UNCHANGED <<readerVars, spc, app, cbHist>>

\* Read, once updateWholeBuffer has found len(c.readChan) = 0:
\* if len(c.Conn.readBuf) >= n {...}
CbScanRead ==
    \E r \in running :
    /\ IsRead(r) /\ r.ph = "drain" /\ readChan = <<>> /\ Instr(r).f = "Read"
    /\ LET n == Instr(r).n IN
       IF Len(readBuf) >= n
       THEN /\ readBuf' = ReadRest(readBuf, n)
            /\ consumed' = consumed \o ReadOut(readBuf, n)
            /\ ret' = [f |-> "Read", err |-> FALSE, val |-> ReadOut(readBuf, n),
                       pre |-> r.buf0]
            /\ Replace(r, Advance(r, readBuf'))
       ELSE /\ Replace(r, Phase(r, "top"))
            /\ UNCHANGED <<readBuf, consumed, ret>>
    /\ UNCHANGED <<netVars, readChan, opChan, msgHandler, isStopped, stopChan, chanReg>>
    /\ UNCHANGED <<readerVars, spc, app, cbHist>>

\* Write / WriteMsg: c.Conn.netconn.Write(bs) succeeds
CbWriteOk ==
    \E r \in running :
    /\ IsWrite(r)
    /\ out' = Append(out, WriteData(Instr(r)))
    /\ ret' = [f |-> Instr(r).f, err |-> FALSE, val |-> WriteData(Instr(r)),
               pre |-> r.buf0]
    /\ Replace(r, Advance(r, readBuf))
    /\ UNCHANGED <<closed, sent>>
    /\ UNCHANGED <<connVars, readerVars, spc, app, consumed, cbHist>>

\* Mutation: a failed write stopping the connection as a failed read does.
FlagAfterWriteErrSet == TRUE

\* Write hands back what netconn.Write returned and does nothing else: the
\* stop flag after a failed write is the stop flag before it.
FlagAfterWriteErr == isStopped

\* Write / WriteMsg: c.Conn.netconn.Write(bs) fails
CbWriteErr ==
    \E r \in running :
    /\ IsWrite(r)
    /\ ret' = [f |-> Instr(r).f, err |-> TRUE, val |-> <<>>, pre |-> r.buf0]
    /\ Replace(r, Advance(r, readBuf))
    /\ isStopped' = FlagAfterWriteErr
    /\ UNCHANGED <<netVars, readBuf, readChan, opChan, msgHandler, stopChan, chanReg>>
    /\ UNCHANGED <<readerVars, spc, app, consumed, cbHist>>

\* The callback returns to the scheduler loop, which goes round again.
CbReturn ==
    \E r \in running :
    /\ Returning(r) /\ spc = "run"
    /\ running' = running \ {r}
    /\ opsDone' = IF r.kind = "op" THEN opsDone \cup {r.id} ELSE opsDone
    /\ ret' = NoRet
    /\ spc' = AfterReturn
    /\ UNCHANGED <<netVars, connVars, readerVars, app>>
    /\ UNCHANGED <<consumed, nHandled, opsStarted, opBefore, opReturned, replaced, stopAgain>>

----------------------------------------------------------------------------
\* Application goroutines.

Idle(g) == app[g].pc = "idle"
Goto(g, pc) == app' = [app EXCEPT ![g].pc = pc]

\* The QueueOperation calls a behaviour may still make.
CallsLeft == Len(opBefore) < MaxOps + (IF spc = "done" THEN MaxLateOps ELSE 0)

\* QueueOperation(o) is called
AppQueueCall(g, o) ==
    /\ Idle(g) /\ CallsLeft
    /\ app' = [app EXCEPT ![g] = [pc |-> "queue",
                                  op |-> [id |-> Len(opBefore) + 1, name |-> o]]]
    /\ opBefore' = Append(opBefore, opReturned)
    /\ UNCHANGED <<netVars, connVars, readerVars, spc, running>>
    /\ UNCHANGED <<consumed, ret, nHandled, opsStarted, opsDone, opReturned, replaced,
                   stopAgain>>

\* c.opChan <- o, and QueueOperation returns
AppQueueSend(g) ==
    /\ app[g].pc = "queue" /\ Len(opChan) < OpChanCap
    /\ opChan' = Append(opChan, app[g].op)
    /\ opReturned' = opReturned \cup {app[g].op.id}
    /\ app' = [app EXCEPT ![g] = [pc |-> "idle", op |-> NoOp]]
    /\ UNCHANGED <<netVars, readBuf, readChan, msgHandler, isStopped, stopChan, chanReg>>
    /\ UNCHANGED <<readerVars, spc, running>>
    /\ UNCHANGED <<consumed, ret, nHandled, opsStarted, opsDone, opBefore, replaced,
                   stopAgain>>

\* SetMessageHandler(f)
AppSetMessageHandler(g, f) ==
    /\ Idle(g)
    /\ msgHandler' = OrDefault(f)
    /\ replaced' = (replaced \/ f # "nil")
    /\ UNCHANGED <<netVars, readBuf, readChan, opChan, isStopped, stopChan, chanReg>>
    /\ UNCHANGED <<readerVars, spc, running, app>>
    /\ UNCHANGED <<consumed, ret, nHandled, opsStarted, opsDone, opBefore, opReturned,
                   stopAgain>>

\* Stop: if c.isStopped { return }
AppStopCheck(g) ==
    /\ Idle(g)
    /\ Goto(g, IF StopGuard THEN "idle" ELSE "stop_set")
    /\ stopAgain' = (stopAgain \/ (StopGuard /\ StopHasReturned))
    /\ UNCHANGED <<netVars, connVars, readerVars, spc, running, stopHist>>

\* Stop: c.isStopped = true
AppStopSet(g) ==
    /\ app[g].pc = "stop_set"
    /\ isStopped' = TRUE
    /\ Goto(g, "stop_send")
    /\ UNCHANGED <<netVars, readBuf, readChan, opChan, msgHandler, stopChan, chanReg>>
    /\ UNCHANGED <<readerVars, spc, running, histVars>>

\* Stop: c.stopChan <- true, and Stop returns
AppStopSend(g) ==
    /\ app[g].pc = "stop_send" /\ stopChan < StopChanCap
    /\ stopChan' = stopChan + 1
    /\ Goto(g, "idle")
    /\ UNCHANGED <<netVars, readBuf, readChan, opChan, msgHandler, isStopped, chanReg>>
    /\ UNCHANGED <<readerVars, spc, running, histVars>>

----------------------------------------------------------------------------
Reader ==
    \/ ReaderCheck \/ (\E b \in Byte : ReaderRead(b)) \/ ReaderReadErr \/ ReaderSend
    \/ ReaderStopCheck \/ ReaderStopSet \/ ReaderStopSend

Scheduler == SchedTop \/ SchedByte \/ SchedOp \/ SchedStop

Callback ==
    \/ CbTimedOut \/ CbNotTimedOut \/ CbDrainByte \/ CbScanMsg \/ CbScanRead
    \/ CbWriteOk \/ CbWriteErr \/ CbReturn

Application ==
    \E g \in Apps :
        \/ \E o \in OpNames : AppQueueCall(g, o)
        \/ AppQueueSend(g)
        \/ \E f \in HandlerArgs : AppSetMessageHandler(g, f)
        \/ AppStopCheck(g) \/ AppStopSet(g) \/ AppStopSend(g)

Next == Reader \/ Scheduler \/ Callback \/ Application

Spec == Init /\ [][Next]_vars

\* The connection with no stop request and no read error. The scheduler loop
\* keeps running, and select, which picks at random among the cases that are
\* ready, does not pass over a ready operation for ever.
LiveNext ==
    \/ ReaderCheck \/ (\E b \in Byte : ReaderRead(b)) \/ ReaderSend
    \/ SchedTop \/ SchedByte \/ SchedOp
    \/ Callback
    \/ \E g \in Apps :
          \/ \E o \in OpNames : AppQueueCall(g, o)
          \/ AppQueueSend(g)
          \/ \E f \in HandlerArgs : AppSetMessageHandler(g, f)

LiveSpec ==
    Init /\ [][LiveNext]_vars /\ WF_vars(SchedTop) /\ SF_vars(SchedOp)

\* The connection with its goroutines scheduled fairly and the handler of
\* NewConn(c, nil, delim). A goroutine that can take its next step takes it:
\* the reader (whose read fails once the scheduler has closed the
\* connection), the scheduler, the running callback, and an application
\* goroutine inside a QueueOperation or Stop call. What the peer sends and
\* which calls the applications make stay free.
ReaderClosedErr == closed > 0 /\ ReaderReadErr

FairNext ==
    \/ Reader \/ Scheduler \/ Callback
    \/ \E g \in Apps :
          \/ \E o \in OpNames : AppQueueCall(g, o)
          \/ AppQueueSend(g)
          \/ AppStopCheck(g) \/ AppStopSet(g) \/ AppStopSend(g)

FairSpec ==
    /\ Init /\ [][FairNext]_vars
    /\ WF_vars(ReaderCheck \/ ReaderSend \/ ReaderClosedErr
                  \/ ReaderStopCheck \/ ReaderStopSet \/ ReaderStopSend)
    /\ WF_vars(Scheduler)
    /\ WF_vars(Callback)
    /\ \A g \in Apps : WF_vars(AppQueueSend(g) \/ AppStopSet(g) \/ AppStopSend(g))

\* The endpoint with a peer that sends back what it receives, byte for byte
\* and in order: the messages the endpoint writes with WriteMsg are the
\* messages it is sent, and the reply to a message is that message.
RECURSIVE Flatten(_)
Flatten(ws) == IF ws = <<>> THEN <<>> ELSE Head(ws) \o Flatten(Tail(ws))
Wire == Flatten(out)

\* conn.netconn.Read(minibuf) returns the next byte of the wire
ReaderReadWire ==
    /\ rpc = "read" /\ closed = 0 /\ Len(sent) < Len(Wire)
    /\ minibuf' = Wire[Len(sent) + 1] /\ sent' = Append(sent, minibuf')
    /\ rpc' = "send"
    /\ UNCHANGED <<closed, out>>
    /\ UNCHANGED <<connVars, spc, running, app, histVars>>

\* The endpoints with the default handler, operations that send messages,
\* no stop request and no read error.
LoopNext ==
    \/ ReaderCheck \/ ReaderReadWire \/ ReaderSend
    \/ SchedTop \/ SchedByte \/ SchedOp
    \/ CbTimedOut \/ CbNotTimedOut \/ CbDrainByte \/ CbScanMsg
    \/ CbWriteOk \/ CbWriteErr \/ CbReturn
    \/ \E g \in Apps :
          \/ \E o \in SendNames \cup {"ping"} : AppQueueCall(g, o)
          \/ AppQueueSend(g)

LoopSpec == Init /\ [][LoopNext]_vars

----------------------------------------------------------------------------
\* Properties.

IsPrefix(s, t) == Len(s) <= Len(t) /\ SubSeq(t, 1, Len(s)) = s
NumDelims(s) == Cardinality({i \in 1..Len(s) : s[i] = Delim})
Started(id) == \E i \in 1..Len(opsStarted) : opsStarted[i] = id

\* The step is the return of a call of f made by a running callback.
Returns(f) ==
    \E r \in running :
        /\ ~Returning(r) /\ Instr(r).f = f
        /\ \E r2 \in running' : r2.inv = r.inv /\ r2.ip = r.ip + 1

\* The step starts a handler invocation.
Dispatches == nHandled' = nHandled + 1

\* C1: at every moment at most one callback (handler invocation or queued
\* operation) is executing.
AtMostOneCallback == Cardinality(running) <= 1

\* A callback is executing while an operation and a byte are both waiting.
C1_Witness ==
    /\ \E r \in running : ~Returning(r)
    /\ opChan # <<>> /\ readChan # <<>>

\* C2: the bytes handed out by Read/ReadMsg (delimiters included), then the
\* read buffer, then the pending byte queue, then the byte the reader holds,
\* are exactly the bytes received from the peer: arrival order, no gap, no
\* duplicate.
InHand == IF rpc = "send" THEN <<minibuf>> ELSE <<>>
ArrivalOrder ==
    /\ IsPrefix(consumed \o readBuf \o readChan, sent)
    /\ consumed \o readBuf \o readChan \o InHand = sent

\* Bytes have been consumed while others wait in the buffer and in the queue.
C2_Witness == consumed # <<>> /\ readBuf # <<>> /\ readChan # <<>>

\* C3: while a stop signal is pending (a Stop call has returned and the
\* scheduler has not served it) the scheduler starts no handler invocation
\* and no operation.
NothingStartsAfterStop ==
    [][stopChan > 0 => (nHandled' = nHandled /\ opsStarted' = opsStarted)]_vars

\* C4: with the default handler, no queued operation and the connection
\* active, once everything the peer sent has been taken in and nothing is
\* running, the handler has been invoked once per delimiter received and no
\* complete message is left in the read buffer.
Quiescent ==
    /\ rpc = "read" /\ readChan = <<>>
    /\ spc = "select" /\ opChan = <<>> /\ stopChan = 0 /\ running = {}
    /\ \A g \in Apps : Idle(g)
OnceHandlerPerMessage ==
    (Quiescent /\ ~isStopped /\ ~replaced /\ opBefore = <<>>)
        => (nHandled = NumDelims(sent) /\ FirstDelim(readBuf) = 0)

\* C5: a successful ReadMsg returns the bytes before the first delimiter of
\* the read buffer, without the delimiter, and removes those bytes and that
\* delimiter from the front of the buffer; what follows stays, in order.
ReadMsgTakesFirstMessage ==
    [][(Returns("ReadMsg") /\ ~ret'.err) =>
          /\ \A i \in 1..Len(ret'.val) : ret'.val[i] # Delim
          /\ readBuf = ret'.val \o <<Delim>> \o readBuf']_vars

\* ReadMsg has returned a message that is not empty and bytes stay buffered.
C5_Witness ==
    /\ ret.f = "ReadMsg" /\ ~ret.err /\ ret.val # <<>>
    /\ readBuf # <<>>

\* C6: a successful Read(n, timeout) returns exactly n bytes, the first n of
\* the read buffer, and removes exactly those from its front.
ReadTakesExactlyN ==
    [][\A r \in running :
          (~Returning(r) /\ Instr(r).f = "Read" /\ Returns("Read") /\ ~ret'.err) =>
             /\ Len(ret'.val) = Instr(r).n
             /\ readBuf = ret'.val \o readBuf']_vars

\* Read has returned two bytes and a byte stays buffered.
C6_Witness ==
    /\ ret.f = "Read" /\ ~ret.err /\ Len(ret.val) = 2
    /\ readBuf # <<>>

\* C7 as claimed: a Read or ReadMsg that times out leaves the read buffer as
\* it was when the call was made.
TimeoutLeavesBufferUnchanged ==
    [][((Returns("Read") \/ Returns("ReadMsg")) /\ ret'.err) =>
          readBuf' = ret'.pre]_vars

\* C7 amended: only a Read or ReadMsg with a non-zero timeout fails; it then
\* returns the error and no data and consumes nothing: the read buffer at
\* the call is a prefix of the read buffer at the return, which has grown by
\* the bytes the call moved over from the pending byte queue.
TimeoutConsumesNothing ==
    [][((Returns("Read") \/ Returns("ReadMsg")) /\ ret'.err) =>
          /\ \A r \in running : ~Returning(r) /\ Instr(r).t # 0
          /\ ret'.val = <<>>
          /\ consumed' = consumed
          /\ IsPrefix(ret'.pre, readBuf')
          /\ ret'.pre \o SubSeq(sent, Len(consumed) + Len(ret'.pre) + 1,
                                Len(consumed) + Len(readBuf')) = readBuf']_vars

\* A read has just timed out with the buffer longer than it was at the call.
C7_Witness ==
    /\ ret.f \in {"Read", "ReadMsg"} /\ ret.err
    /\ \E r \in running : r.buf0 = readBuf /\ r.buf0 # ret.pre /\ ret.pre # <<>>

\* C8 as claimed: the handler invoked for a delimiter is the one that was
\* registered when that delimiter was received.
HandlerIsTheOneAtReceipt ==
    [][Dispatches =>
          \A r \in running' \ running : r.name = Head(chanReg)]_vars

\* C8 amended: SetMessageHandler never touches a running callback, which
\* keeps the handler it was started with until it returns; every handler
\* invocation uses the handler registered at the moment the scheduler takes
\* the delimiter off the pending byte queue, also when the delimiter had
\* been received before the replacement.
HandlerIsTheOneAtDispatch ==
    [][/\ \A r \in running : ~Returning(r) =>
             \E r2 \in running' :
                r2.inv = r.inv /\ r2.kind = r.kind /\ r2.name = r.name
       /\ msgHandler' # msgHandler => running' = running
       /\ Dispatches => \A r \in running' \ running : r.name = msgHandler]_vars

\* A handler invocation is running and the registered handler is another.
C8_Witness ==
    \E r \in running : r.kind = "handler" /\ ~Returning(r) /\ r.name # msgHandler

\* C9: no operation is started twice, and an operation starts only when every
\* operation whose QueueOperation had returned before its own was called has
\* been started before it and has returned.
OperationsInSubmissionOrder ==
    /\ \A i, j \in 1..Len(opsStarted) : i # j => opsStarted[i] # opsStarted[j]
    /\ \A i \in 1..Len(opsStarted) :
          \A o \in opBefore[opsStarted[i]] :
             /\ \E j \in 1..(i - 1) : opsStarted[j] = o
             /\ o \in opsDone

\* Two operations queued one after the other have both been started, with a
\* handler invocation as well.
C9_Witness ==
    /\ Len(opsStarted) = 2 /\ opBefore[opsStarted[2]] # {}
    /\ nHandled > 0

StopIsIdempotent ==
    [][StopHasReturned =>
          /\ isStopped /\ isStopped'
          /\ \A g \in Apps : Idle(g) => app'[g].pc # "stop_set"
          /\ rpc = "stop_check" => rpc' # "stop_set"
          /\ stopAgain' # stopAgain =>
                /\ UNCHANGED <<netVars, connVars, spc, running>>
                /\ \A g \in Apps : Idle(g) => Idle(g)']_vars

\* A second Stop call has returned, once the scheduler had exited.
C11_Witness == stopAgain /\ spc = "done" /\ \A g \in Apps : Idle(g)

\* The messages in bs: the runs of bytes each ended by a delimiter.
RECURSIVE Split(_)
Split(bs) ==
    LET k == FirstDelim(bs) IN
    IF k = 0 THEN <<>>
    ELSE <<SubSeq(bs, 1, k - 1)>> \o Split(SubSeq(bs, k + 1, Len(bs)))

\* The contents written, one per write: each write without its last byte.
Contents(ws) == [i \in 1..Len(ws) |-> SubSeq(ws[i], 1, Len(ws[i]) - 1)]

\* C12: every successful WriteMsg(msg) makes a single write of msg followed
\* by one delimiter, and the messages the successful ReadMsg calls of the
\* peer have returned are, in order, the first of the messages written.
WriteMsgReadMsgRoundTrip ==
    /\ [][\A r \in running :
             (~Returning(r) /\ Instr(r).f = "WriteMsg" /\ Returns("WriteMsg")
                 /\ ~ret'.err) => out' = Append(out, Instr(r).bs \o <<Delim>>)]_vars
    /\ [](IsPrefix(Split(consumed), Contents(out)))

\* Two messages that differ have been written and read back.
C12_Witness ==
    /\ Len(Split(consumed)) = 2
    /\ Split(consumed)[1] # Split(consumed)[2]

\* C13: request and reply inside an operation. No handler invocation starts
\* while an operation is running. When the operation that has written the
\* first message calls ReadMsg with a timeout and the call succeeds, it
\* returns the content of the reply and takes the reply and its delimiter
\* out of the buffer; no handler invocation has been started, and none is
\* started for that reply afterwards.
ReplyGoesToOperation ==
    [][/\ (\E r \in running : r.kind = "op") => nHandled' = nHandled
       /\ \A r \in running :
             (r.kind = "op" /\ r.name = "ping" /\ Len(out) = 1
                 /\ Returns("ReadMsg") /\ ~ret'.err) =>
                /\ ret'.val = Contents(out)[1]
                /\ readBuf' = <<>> /\ readChan' = <<>>
                /\ nHandled' = 0
       /\ (Len(out) = 1 /\ consumed = out[1] /\ nHandled = 0) => nHandled' = 0]_vars

\* The operation's ReadMsg has returned the reply; no handler has run.
C13_Witness ==
    /\ \E r \in running : r.kind = "op" /\ r.name = "ping" /\ Returning(r)
    /\ ret.f = "ReadMsg" /\ ~ret.err /\ ret.val = <<Letter>>
    /\ Len(out) = 1 /\ nHandled = 0

\* C14: Read(n, 0) never returns the timeout error, and once n bytes or more
\* are in the read buffer and the pending byte queue together it returns.
ReadingUnbounded ==
    \E r \in running : ~Returning(r) /\ Instr(r).f = "Read" /\ Instr(r).t = 0
ReadUnboundedReturns ==
    /\ [][(ReadingUnbounded /\ Returns("Read")) => ~ret'.err]_vars
    /\ (\E r \in running :
            /\ ~Returning(r) /\ Instr(r).f = "Read" /\ Instr(r).t = 0
            /\ Len(readBuf) + Len(readChan) >= Instr(r).n)
          ~> (ret.f = "Read" /\ ~ret.err /\ ~ReadingUnbounded)

\* Read(1, 0) has returned a byte it had to wait for.
C14_Witness ==
    /\ \E r \in running : r.name = "wait" /\ Returning(r) /\ r.buf0 = <<>>
    /\ ret.f = "Read" /\ ~ret.err /\ ret.pre = <<>> /\ Len(ret.val) = 1

\* C15: the lifecycle only moves forward. Active (flag clear), Stopping (flag
\* set), Stopped (connection closed by the scheduler, which has exited) are
\* passed in that order and never backwards: the flag is never cleared, the
\* connection is closed at most once and only with the flag set, and from
\* then on the scheduler takes no byte and starts no handler and no
\* operation.
Lifecycle == IF closed > 0 THEN 2 ELSE IF isStopped THEN 1 ELSE 0
LifecycleForward ==
    [][/\ Lifecycle' >= Lifecycle
       /\ isStopped => isStopped'
       /\ closed' <= 1
       /\ closed' # closed => (isStopped /\ running = {} /\ spc' = "done")
       /\ closed > 0 =>
             /\ spc = "done" /\ spc' = "done"
             /\ readBuf' = readBuf /\ IsPrefix(readChan, readChan')
             /\ IsPrefix(opChan, opChan')
             /\ running' = running /\ nHandled' = nHandled
             /\ opsStarted' = opsStarted]_vars

\* The scheduler has closed the connection and exited, leaving a byte and an
\* operation behind; further signals are in stopChan.
C15_Witness ==
    /\ closed = 1 /\ spc = "done" /\ isStopped
    /\ readChan # <<>> /\ opChan # <<>> /\ stopChan > 0

\* C16: a failed Write or WriteMsg hands the error to the callback that made
\* the call and changes nothing else: the stop flag, the stop signals, the
\* connection and the scheduler are as before, and the callback goes on. A
\* stop signal is only ever sent by a Stop call, made by an application or
\* by the reader after a read error, and without one the scheduler never
\* exits.
WriteFailureChangesNothing ==
    [][/\ ((Returns("Write") \/ Returns("WriteMsg")) /\ ret'.err) =>
             /\ UNCHANGED <<isStopped, stopChan, closed, spc>>
             /\ UNCHANGED <<readBuf, readChan, opChan, msgHandler>>
             /\ spc = "run"
       /\ stopChan' > stopChan =>
             (rpc = "stop_send" \/ \E g \in Apps : app[g].pc = "stop_send")
       /\ isStopped' # isStopped =>
             (rpc = "stop_set" \/ \E g \in Apps : app[g].pc = "stop_set")
       /\ (spc' = "done" /\ spc # "done") => stopChan > 0]_vars

\* The write of the first operation has failed, and the connection, still
\* active, has gone on to a second operation and to a handler invocation.
C16_Witness ==
    /\ 1 \in opsDone /\ out = <<>>
    /\ Len(opsStarted) = 2 /\ nHandled > 0
    /\ ~isStopped /\ closed = 0 /\ stopChan = 0

\* C17: Stop finishes the current callback first. The connection is never
\* closed while a handler or an operation is executing; and if every
\* callback that runs returns, then once the stop flag is set (by a Stop
\* call or after a read error) the scheduler closes the connection and
\* exits.
StopFinishesCurrentFirst ==
    /\ [][closed' # closed => running = {}]_vars
    /\ (running # {} ~> running = {}) =>
          (isStopped ~> (closed = 1 /\ spc = "done" /\ running = {}))

\* A stop signal is waiting while an operation is still executing on the
\* open connection.
C17_Witness ==
    /\ stopChan > 0 /\ closed = 0
    /\ \E r \in running : r.kind = "op" /\ ~Returning(r)

\* C18: the reader goroutine always terminates after shutdown. After a read
\* error it calls Stop and exits, and once the scheduler has closed the
\* connection and exited the reader exits too, wherever it was.
ReaderTerminatesAfterShutdown ==
    /\ rpc = "stop_check" ~> rpc = "done"
    /\ closed > 0 ~> rpc = "done"

\* C19: when the scheduler invokes the message handler the read buffer holds
\* a delimiter, and it still does for as long as the handler has not got
\* past a ReadMsg that is its first call; so that ReadMsg finds a message
\* the first time it looks, with no further byte from the peer, and with no
\* timeout it never fails.
FirstReadMsg(r) ==
    r.kind = "handler" /\ r.ip = 1 /\ ~Returning(r) /\ Instr(r).f = "ReadMsg"
HandlerStartsWithMessage ==
    [][/\ Dispatches => FirstDelim(readBuf') > 0
       /\ \A r \in running :
             FirstReadMsg(r) =>
                /\ FirstDelim(readBuf) > 0
                /\ r.ph = "drain" =>
                      ~\E r2 \in running' : r2.inv = r.inv /\ r2.ip = 1 /\ r2.ph = "top"
                /\ (Returns("ReadMsg") /\ Instr(r).t = 0) => ~ret'.err]_vars

\* The default handler's ReadMsg has returned a message that is not empty.
C19_Witness ==
    /\ \E r \in running : r.kind = "handler" /\ r.name = "default" /\ Returning(r)
    /\ ret.f = "ReadMsg" /\ ~ret.err /\ ret.val # <<>>

\* C20: every QueueOperation call made by an application goroutine returns,
\* also one made when the operation queue is full and one made after the
\* scheduler has exited.
QueueOperationReturns ==
    \A g \in Apps : (app[g].pc = "queue") ~> Idle(g)


====
